---- MODULE Spec2Model ----
(***************************************************************************)
(* dify2wxbot: the webhook handler, the conversation store, the Dify       *)
(* client with its retrying request primitive, and the message converter   *)
(* that classifies a Dify reply and delivers it to the WeCom robot.        *)
(***************************************************************************)
EXTENDS Integers, Sequences, FiniteSets, TLC

\* ------------------------------------------------------------------ bounds
\* Requests received in one behaviour.
MaxRequests == 2

\* ------------------------------------------------------- program constants
maxRetries == 3
StatusOK == 200
\* postprocessDifyResponse: the WeCom text limit in bytes and what the
\* truncation keeps free for the notice.
maxWeComMessageLength == 2048
noticeReserve == 50
\* The UTF-8 bytes of the notice the truncation appends.
NoticeBytes == 64

responseModeBlocking == "blocking"
\* The source has the Chinese word for "employee".
defaultRole == "employee"
difyChatMessagesPath == "/v1/chat-messages"
difyCompletionMessagesPath == "/v1/completion-messages"
difyWorkflowRunPath == "/v1/workflows/run"
difyFileUploadPath == "/files/upload"

\* ------------------------------------------------------------ value domains
\* The goroutines that serve webhook requests.
Workers == {1}

\* uuid.New().String(): the n-th value drawn in a behaviour; all distinct.
UuidTable == <<"uuid-1", "uuid-2", "uuid-3", "uuid-4", "uuid-5", "uuid-6">>
\* Conversation ids the Dify backend originates; all distinct.
DifyIdTable == <<"dify-1", "dify-2", "dify-3", "dify-4", "dify-5", "dify-6">>

Messages == {"", "hello", "/image cat"}
UserFields == {"", "u1"}
ConversationFields == {"", "c1", "c2"}
FileNames == {"", "a.png"}
BotTypes == {"chat", "completion", "workflow", "unknown"}
Statuses == {200, 201, 404}

\* A string by what the length checks read: its characters ([]rune) and
\* the UTF-8 bytes of each of them (all of one width).
Text(runes, width) == [runes |-> runes, width |-> width]
NoText == Text(0, 1)
\* len(s) of a Go string.
Bytes(t) == t.runes * t.width

\* Short strings, strings at and just over the byte limit, and strings of
\* three-byte characters over the byte limit with fewer and with more
\* characters than the truncation keeps.
ShortText == Text(5, 1)
LongTexts ==
  {Text(2048, 1), Text(2049, 1), Text(700, 3), Text(1800, 3), Text(2000, 3)}

\* A payload string as the classifier sees it: whether it is the empty
\* string (nil for a workflow data object), whether it parses as a JSON
\* object, the fields of that object the classifier reads ("" and NoText
\* stand for a field that is absent, empty or not a string), and the
\* length of the whole string.
Payload(empty, obj, img, file, md, data, size) ==
  [empty |-> empty, obj |-> obj, image_url |-> img, file_url |-> file,
   markdown |-> md, data |-> data, size |-> size]

EmptyPayload == Payload(TRUE, FALSE, "", "", NoText, FALSE, NoText)
PlainPayload == Payload(FALSE, FALSE, "", "", NoText, FALSE, ShortText)
PlainPayloads ==
  { Payload(FALSE, FALSE, "", "", NoText, FALSE, t) : t \in {ShortText} \cup LongTexts }
\* Objects with every combination of the fields, and long objects: one
\* with a long markdown field, and ones without a typed field.
ObjectPayloads ==
  { Payload(FALSE, TRUE, i, f, m, d, Text(40, 1)) :
      i \in {"", "http://x/y.png"}, f \in {"", "http://x/z"},
      m \in {NoText, Text(4, 1)}, d \in BOOLEAN }
    \cup { Payload(FALSE, TRUE, "", "", Text(3000, 1), d, Text(3020, 1)) : d \in BOOLEAN }
    \cup { Payload(FALSE, TRUE, "", "", NoText, d, Text(3000, 1)) : d \in BOOLEAN }
TextPayloads == PlainPayloads \cup ObjectPayloads

\* --------------------------------------------------------------- the store
\* InMemoryConversationStore: a map from user id to conversation id.  Every
\* method holds the lock for its whole body, so each is one atomic step.
GetConversationID(s, userID) ==
  [id |-> IF userID \in DOMAIN s THEN s[userID] ELSE "",
   ok |-> userID \in DOMAIN s]

\* A store with one slot, which every user shares.
SaveConversationIDForAll(s, userID, conversationID) ==
  [k \in DOMAIN s \cup {userID} |-> conversationID]

\* A store that keeps the id a user already has.
SaveConversationIDIfAbsent(s, userID, conversationID) ==
  [k \in DOMAIN s \cup {userID} |->
     IF k = userID /\ userID \notin DOMAIN s THEN conversationID ELSE s[k]]

SaveConversationID(s, userID, conversationID) ==
  [k \in DOMAIN s \cup {userID} |-> IF k = userID THEN conversationID ELSE s[k]]

NewConversationID(s, userID, uuid) ==
  [k \in DOMAIN s \cup {userID} |-> IF k = userID THEN uuid ELSE s[k]]

DeleteConversationID(s, userID) ==
  [k \in DOMAIN s \ {userID} |-> s[k]]

EmptyStore == [k \in {} |-> ""]

\* ------------------------------------------------------------------- state
VARIABLES
  cfg,     \* AppConfig: Dify.BotType, Dify.BaseURL, Dify.APIKey,
           \* Dify.DefaultPrompt, EnableAuth (fixed after LoadConfig)
  store,   \* InMemoryConversationStore.store
  disk,    \* paths of the files that exist in os.TempDir()
  dify,    \* the backend: user -> conversation id of the user's latest
           \* successfully completed chat run ("" when there is none), for
           \* the users that name themselves and so can come back
  nreq,    \* webhook requests received so far
  h        \* one frame per handler goroutine: its position and its locals

vars == <<cfg, store, disk, dify, nreq, h>>

AuthToken == "secret"
AuthHeaders == {"", "Bearer secret", "Bearer other"}
ExpectedToken == "Bearer secret"
ContentTypes == {"application/json", "multipart/form-data", "text/plain"}
ImageCommands == {"/image cat"}
ImageReply == "image generation is not implemented"
TempNames == {"dify_tmp_1", "dify_tmp_2", "dify_tmp_3"}
UploadPath(name) == IF name = "" THEN "" ELSE name

\* role is the "role" entry of the inputs: <<>> when the map has no such
\* key, <<r>> when it has the value r.
NoRequest == [path |-> "", query |-> "", conversation_id |-> "", user |-> "",
              role |-> <<>>, response_mode |-> "", files |-> <<>>]

\* What one httpClient.Do and the read of its body can give: no round trip,
\* a response whose body cannot be read, or a status with a body.  valid
\* says that the body is JSON that decodes into the destination; field is
\* the answer / text / data of the body and id the "id" of an upload reply:
\* <<s>> for the string s, <<>> when the field is absent or no string.
Outcome(kind, status, valid, field, id) ==
  [kind |-> kind, status |-> status, valid |-> valid, field |-> field, id |-> id]

\* What is kept of the last outcome of a call for the properties: present
\* says that the body carried a non-empty answer / text / data.
Seen(out) ==
  [kind |-> out.kind, status |-> out.status, valid |-> out.valid,
   present |-> ~out.field.empty, id |-> out.id]

NoOutcome ==
  [kind |-> "", status |-> 0, valid |-> FALSE, present |-> FALSE, id |-> <<>>]

\* A handler goroutine that is not serving a request.
IdleFrame ==
  [pc |-> "idle", n |-> 0, method |-> "", authHeader |-> "",
   message |-> "", user |-> "", conversationID |-> "", filePath |-> "",
   currentConversationID |-> "", query |-> "",
   kind |-> "", attempt |-> 0, request |-> NoRequest, files |-> <<>>,
   difyResponse |-> EmptyPayload, branch |-> "", tempFilePath |-> "",
   why |-> "", shadowed |-> FALSE,
   \* what the run has done, for the properties
   storeAt |-> EmptyStore, ops |-> <<>>, tries |-> <<>>, resp |-> NoOutcome,
   conv |-> "", sends |-> <<>>, ret |-> "", err |-> "", status |-> 0]

\* r with the fields of upd replaced.
With(r, upd) ==
  [k \in DOMAIN r |-> IF k \in DOMAIN upd THEN upd[k] ELSE r[k]]

Set(w, upd) == h' = [h EXCEPT ![w] = With(h[w], upd)]

Init ==
  /\ cfg \in [BotType : BotTypes, BaseURL : {"", "https://api.dify.ai"},
              APIKey : {"", "app-key"}, DefaultPrompt : {"", "default prompt"},
              EnableAuth : BOOLEAN]
  /\ store = EmptyStore
  /\ disk = {}
  /\ dify = [u \in UserFields \ {""} |-> ""]
  /\ nreq = 0
  /\ h = [w \in Workers |-> IdleFrame]

\* ------------------------------------------------------------- the handler
\* A handler that does not look at the Authorization header.
AdmissionAuthOff(c, method, authHeader) ==
  IF method # "POST" THEN 405 ELSE 0

\* A handler that serves every method.
AdmissionAnyMethod(c, method, authHeader) ==
  IF c.EnableAuth /\ authHeader = "" THEN 401
  ELSE IF c.EnableAuth /\ authHeader # ExpectedToken THEN 401
  ELSE 0

\* HandleWebhook, the checks before the body is read: the status the request
\* is rejected with, 0 when it passes.
Admission(c, method, authHeader) ==
  IF method # "POST" THEN 405
  ELSE IF c.EnableAuth /\ authHeader = "" THEN 401
  ELSE IF c.EnableAuth /\ authHeader # ExpectedToken THEN 401
  ELSE 0

\* A handler that uses the supplied id and leaves the store alone.
ResolveConversationUnsaved(s, user, conversationID) ==
  IF conversationID # ""
  THEN [id |-> conversationID, store |-> s]
  ELSE LET g == GetConversationID(s, user)
       IN  [id |-> IF g.ok THEN g.id ELSE "", store |-> s]

\* A handler that saves the supplied id only for a user without an entry.
ResolveConversationKeepFirst(s, user, conversationID) ==
  IF conversationID # ""
  THEN [id |-> conversationID,
        store |-> IF GetConversationID(s, user).ok THEN s
                  ELSE SaveConversationID(s, user, conversationID)]
  ELSE LET g == GetConversationID(s, user)
       IN  [id |-> IF g.ok THEN g.id ELSE "", store |-> s]

\* A handler that never reads the store for a request without an id.
ResolveConversationIgnoreSaved(s, user, conversationID) ==
  IF conversationID # ""
  THEN [id |-> conversationID,
        store |-> SaveConversationID(s, user, conversationID)]
  ELSE [id |-> "", store |-> s]

\* A handler that drops the saved id of a user when the request brings none,
\* so that the backend starts a new conversation.
ResolveConversationForget(s, user, conversationID) ==
  IF conversationID # ""
  THEN [id |-> conversationID,
        store |-> SaveConversationID(s, user, conversationID)]
  ELSE [id |-> "", store |-> DeleteConversationID(s, user)]

\* A handler that generates an id for a user without an entry.
ResolveConversationGenerate(s, user, conversationID) ==
  IF conversationID # ""
  THEN [id |-> conversationID,
        store |-> SaveConversationID(s, user, conversationID)]
  ELSE LET g == GetConversationID(s, user)
       IN  IF g.ok THEN [id |-> g.id, store |-> s]
           ELSE [id |-> UuidTable[Len(UuidTable)],
                 store |-> NewConversationID(s, user, UuidTable[Len(UuidTable)])]

\* HandleWebhook, the user and conversation id management: the id used for
\* this call and the store it leaves.
ResolveConversation(s, user, conversationID) ==
  IF conversationID # ""
  THEN [id |-> conversationID,
        store |-> SaveConversationID(s, user, conversationID)]
  ELSE LET g == GetConversationID(s, user)
       IN  [id |-> IF g.ok THEN g.id ELSE "", store |-> s]

\* A handler that passes the user field on as the request has it.
UserOfAsSent(user, uuid) == user

\* HandleWebhook, the user of the request: a request without a user field
\* gets uuid.New().String().
UserOf(user, uuid) == IF user = "" THEN uuid ELSE user

\* A request arrives at an idle goroutine.  The method and the token are
\* checked, the body is parsed by content type, an uploaded file is saved
\* under os.TempDir()/<its name>, and an empty user becomes a fresh uuid.
\* The frame keeps the method of the request, its Authorization header when
\* authentication is enabled (the header is not looked at otherwise), and,
\* for a request that is refused, the store it arrived at.
Receive(w) ==
  /\ h[w].pc = "idle"
  /\ nreq < MaxRequests
  /\ nreq' = nreq + 1
  /\ \E method \in {"POST", "GET"}, authHeader \in AuthHeaders :
     LET base == With(IdleFrame,
                      [n |-> nreq + 1, method |-> method,
                       authHeader |-> IF cfg.EnableAuth THEN authHeader
                                      ELSE ""])
         reject(code, path) ==
           h' = [h EXCEPT ![w] = With(base, [pc |-> "return", status |-> code,
                                             filePath |-> path,
                                             storeAt |-> store])]
     IN    IF Admission(cfg, method, authHeader) # 0
           THEN reject(Admission(cfg, method, authHeader), "") /\ UNCHANGED disk
           ELSE \E contentType \in ContentTypes, parseOK \in BOOLEAN :
             IF contentType = "text/plain" THEN reject(415, "") /\ UNCHANGED disk
             ELSE IF ~parseOK THEN reject(400, "") /\ UNCHANGED disk
             ELSE \E message \in Messages, user \in UserFields,
                     conversationID \in ConversationFields,
                     name \in IF contentType = "multipart/form-data"
                              THEN FileNames ELSE {""} :
               LET path == UploadPath(name)
                   uid == UserOf(user, UuidTable[nreq + 1])
                   accept ==
                     h' = [h EXCEPT ![w] =
                             With(base, [pc |-> "resolve", message |-> message,
                                         user |-> uid,
                                         conversationID |-> conversationID,
                                         filePath |-> path])]
               IN  IF path = "" THEN accept /\ UNCHANGED disk
                   ELSE \E createOK \in BOOLEAN, copyOK \in BOOLEAN :
                     IF ~createOK THEN reject(500, "") /\ UNCHANGED disk
                     ELSE IF ~copyOK
                     THEN reject(500, path) /\ disk' = disk \cup {path}
                     ELSE accept /\ disk' = disk \cup {path}
  /\ UNCHANGED <<cfg, store, dify>>

\* The conversation id of this call is resolved against the store.
Resolve(w) ==
  /\ h[w].pc = "resolve"
  /\ LET r == ResolveConversation(store, h[w].user, h[w].conversationID)
     IN  /\ store' = r.store
         /\ Set(w, [pc |-> "convert", currentConversationID |-> r.id,
                    storeAt |-> store])
  /\ UNCHANGED <<cfg, disk, dify, nreq>>

\* ----------------------------------------------------------- the converter
\* A pre-filter that knows no command.
preprocessMessageNoCommand(message) == [message |-> message, handled |-> FALSE]

\* preprocessMessage: a message with the "/image " prefix is answered
\* directly and is not sent to Dify.
preprocessMessage(message) ==
  IF message \in ImageCommands
  THEN [message |-> ImageReply, handled |-> TRUE]
  ELSE [message |-> message, handled |-> FALSE]

\* A pipeline without the default prompt.
EffectiveMessageNoDefault(c, message) == message

\* ConvertAndSend, the default prompt: what the empty message becomes.
EffectiveMessage(c, message) ==
  IF message = "" /\ c.DefaultPrompt # "" THEN c.DefaultPrompt ELSE message

\* A client whose operations only look at the base URL.
CredentialsMissingURLOnly(c) == c.BaseURL = ""

\* The check every client operation starts with.
CredentialsMissing(c) == c.BaseURL = "" \/ c.APIKey = ""

\* The locals of ConvertAndSend and of the call that are read no more once
\* the client operation or ConvertAndSend itself has returned.
CallReturned ==
  [conversationID |-> "", currentConversationID |-> "",
   query |-> "", kind |-> "", attempt |-> 0, request |-> NoRequest,
   files |-> <<>>, storeAt |-> EmptyStore, tries |-> <<>>,
   difyResponse |-> EmptyPayload, why |-> "", shadowed |-> FALSE]

\* A handler that answers 200 whatever ConvertAndSend returns.
StatusOfAlwaysOK(e) == 200

\* HandleWebhook, the answer to the result e of ConvertAndSend ("" for
\* nil): 500 on an error and 200 otherwise.
StatusOf(e) == IF e = "" THEN 200 ELSE 500

\* ConvertAndSend returns e ("" for nil) to HandleWebhook, which answers 500
\* on an error and 200 otherwise; upd are the frame fields set on the way.
Finish(w, e, upd) ==
  Set(w, [pc |-> "return", ret |-> IF e = "" THEN "ok" ELSE "error",
          err |-> e, status |-> StatusOf(e)] @@ upd
         @@ CallReturned)

\* A panic in ConvertAndSend unwinds the goroutine of the request: the
\* deferred calls run, net/http recovers and closes the connection, and the
\* client gets no response.
Panic(w, upd) ==
  Set(w, [pc |-> "return", ret |-> "panic", err |-> "panic", status |-> 0]
         @@ upd @@ CallReturned)

\* A switch whose default case is missing: every bot type goes on.
IsSupportedAny(botType) == TRUE

\* ConvertAndSend, the switch on the bot type: the cases it has.
IsSupported(botType) == botType \in {"chat", "completion", "workflow"}

\* ConvertAndSend up to its first call that leaves the process: the
\* pre-filter, the default prompt, the empty-request check and the switch
\* on the bot type.
ConvertStart(w) ==
  /\ h[w].pc = "convert"
  /\ LET pre == preprocessMessage(h[w].message)
         message == EffectiveMessage(cfg, pre.message)
     IN  IF pre.handled
         THEN IF pre.message # ""
              THEN Set(w, [pc |-> "presend"] @@ CallReturned)
              ELSE Finish(w, "", <<>>)
         ELSE IF message = "" /\ h[w].filePath = ""
         THEN Finish(w, "empty", <<>>)
         ELSE IF cfg.BotType = "chat" /\ h[w].filePath # ""
         THEN Set(w, [pc |-> "upload", query |-> message])
         ELSE IF IsSupported(cfg.BotType)
         THEN Set(w, [pc |-> "api", query |-> message])
         ELSE Finish(w, "unsupported", <<>>)
  /\ UNCHANGED <<cfg, store, disk, dify, nreq>>

\* The reply of the pre-filter is sent as text; its result is the run's.
PreSend(w) ==
  /\ h[w].pc = "presend"
  /\ \E ok \in BOOLEAN :
       Finish(w, IF ok THEN "" ELSE "send",
              [sends |-> Append(h[w].sends,
                                [type |-> "text", what |-> "reply", ok |-> ok,
                                 body |-> [text |-> NoText, pad |-> 0,
                                           notice |-> FALSE],
                                 url |-> ""])])
  /\ UNCHANGED <<cfg, store, disk, dify, nreq>>

\* UploadFile up to its request: the credentials check, opening the file
\* and building the multipart body.
UploadFile(w) ==
  /\ h[w].pc = "upload"
  /\ LET f == [ops |-> Append(h[w].ops, "upload")]
     IN  IF CredentialsMissing(cfg) THEN Finish(w, "config", f)
         ELSE IF h[w].filePath \notin disk THEN Finish(w, "open", f)
         ELSE Set(w, f @@ [pc |-> "http", kind |-> "upload", attempt |-> 0,
                           tries |-> <<>>,
                           request |-> With(NoRequest,
                                            [path |-> difyFileUploadPath,
                                             user |-> h[w].user])])
  /\ UNCHANGED <<cfg, store, disk, dify, nreq>>

\* A client whose completion and workflow operations post to each other's
\* endpoint.
EndpointOfSwapped(botType) ==
  CASE botType = "chat" -> difyChatMessagesPath
    [] botType = "completion" -> difyWorkflowRunPath
    [] botType = "workflow" -> difyCompletionMessagesPath

\* The endpoint of each bot type.
EndpointOf(botType) ==
  CASE botType = "chat" -> difyChatMessagesPath
    [] botType = "completion" -> difyCompletionMessagesPath
    [] botType = "workflow" -> difyWorkflowRunPath

\* A client that sets the default role whatever the inputs hold.
RoleOfOverwritten(botType, role) ==
  IF botType \in {"chat", "completion"} THEN <<defaultRole>> ELSE role

\* The "role" entry of the inputs as the client operation leaves it: chat
\* and completion add the default role when the key is absent, workflow
\* adds nothing.
RoleOf(botType, role) ==
  IF botType \in {"chat", "completion"} /\ role = <<>>
  THEN <<defaultRole>> ELSE role

\* The response mode as the client operation leaves it, whatever the caller
\* has set.
ResponseModeOf(botType, mode) == responseModeBlocking

\* CallDifyChatAPI / CallDifyCompletionAPI / CallDifyWorkflowAPI up to the
\* request: the credentials check and the request body.
CallAPI(w) ==
  /\ h[w].pc = "api"
  /\ LET f == [ops |-> Append(h[w].ops, cfg.BotType)]
     IN  IF CredentialsMissing(cfg) THEN Finish(w, "config", f)
         ELSE Set(w, f @@ [pc |-> "http", kind |-> cfg.BotType, attempt |-> 0,
                           tries |-> <<>>, resp |-> NoOutcome,
                           request |->
                             [path |-> EndpointOf(cfg.BotType),
                              query |-> h[w].query,
                              conversation_id |->
                                IF cfg.BotType = "chat"
                                THEN h[w].currentConversationID ELSE "",
                              user |-> h[w].user,
                              role |-> RoleOf(cfg.BotType, <<>>),
                              response_mode |->
                                ResponseModeOf(cfg.BotType, responseModeBlocking),
                              files |-> h[w].files]])
  /\ UNCHANGED <<cfg, store, disk, dify, nreq>>

\* ------------------------------------------------- the retrying primitive
FieldsOf(k) ==
  CASE k \in {"chat", "completion"} -> TextPayloads \cup {EmptyPayload}
    [] k = "workflow" -> ObjectPayloads \cup {EmptyPayload}
    [] k = "upload" -> {EmptyPayload}

\* The "id" of the decoded body: absent, the empty string or a file id in
\* the reply to an upload; the other replies are not asked for one.
IdsOf(k) == IF k = "upload" THEN {<<>>, <<"">>, <<"file-1">>} ELSE {<<>>}

Outcomes(k) ==
  {Outcome("transport", 0, FALSE, EmptyPayload, <<>>)}
    \cup {Outcome("readerr", st, FALSE, EmptyPayload, <<>>) : st \in Statuses}
    \cup {Outcome("response", st, FALSE, EmptyPayload, <<>>) : st \in Statuses}
    \cup {Outcome("response", st, TRUE, f, i) :
            st \in Statuses, f \in FieldsOf(k), i \in IdsOf(k)}

\* A loop without a bound on its attempts.
LoopContinuesForever(i, out) == out.kind = "transport"

\* A loop that also tries again after an HTTP response with an error status.
LoopContinuesOnStatus(i, out) ==
  (out.kind = "transport" \/ (out.kind = "response" /\ out.status # StatusOK))
    /\ i + 1 < maxRetries

\* doDifyRequest, the loop: whether attempt i, having ended in out, is
\* followed by another attempt.
LoopContinues(i, out) == out.kind = "transport" /\ i + 1 < maxRetries

\* A status check that lets the whole 2xx range through.
IsSuccessStatus2xx(status) == status \in 200..299

\* doDifyRequest, the status check.
IsSuccessStatus(status) == status = StatusOK

\* doDifyRequest, after the loop: the error it returns, "" for nil.
doDifyRequest(out) ==
  IF out.kind = "transport" THEN "transport"
  ELSE IF out.kind = "readerr" THEN "read"
  ELSE IF ~IsSuccessStatus(out.status) THEN "status"
  ELSE IF ~out.valid THEN "decode"
  ELSE ""

\* A client operation that hands on whatever was decoded.
PayloadMissingNever(field) == FALSE

\* The client operation after doDifyRequest returned nil: the check of the
\* decoded answer / text / data.
PayloadMissing(field) == field.empty

\* The conversation the backend answers in: the one named by the request,
\* a new one of its own when the request names none.
BackendConversation(request, n) ==
  IF request.conversation_id = "" THEN DifyIdTable[n] ELSE request.conversation_id

\* File names with one of the image extensions.
ImageNames == {"a.png"}

\* getFileTypeFromPath: the Dify file type of the extension, for the names
\* above.
getFileTypeFromPath(filePath) ==
  IF filePath \in ImageNames THEN "image" ELSE "other"

\* A pipeline that attaches whatever the "id" of the reply is, the zero
\* value of a failed type assertion included.
AttachmentAlways(id, filePath) ==
  <<[type |-> getFileTypeFromPath(filePath), transfer_method |-> "local_file",
     upload_file_id |-> IF id = <<>> THEN "" ELSE id[1]]>>

\* A pipeline that names the uploaded file as a remote one.
AttachmentRemote(id, filePath) ==
  IF id = <<>> THEN <<>>
  ELSE <<[type |-> getFileTypeFromPath(filePath), transfer_method |-> "remote_url",
          upload_file_id |-> id[1]]>>

\* ConvertAndSend, the files of the chat request after the upload: one
\* attachment when uploadResp["id"] is a string, none otherwise.
Attachment(id, filePath) ==
  IF id = <<>> THEN <<>>
  ELSE <<[type |-> getFileTypeFromPath(filePath), transfer_method |-> "local_file",
          upload_file_id |-> id[1]]>>

\* A pipeline that goes on to the chat call when the upload failed.
AbortsRunExceptUpload(kind, e) == e # "" /\ kind # "upload"

\* Whether the error e of the client operation kind ends the run: the
\* switch of ConvertAndSend sets difyErr and the run returns it.
AbortsRun(kind, e) == e # ""

\* One attempt of doDifyRequest.  When it is the last one, the rest of
\* doDifyRequest and of its caller follows in the same step, up to the next
\* call that leaves the process.
HttpAttempt(w) ==
  /\ h[w].pc = "http"
  /\ \E out \in Outcomes(h[w].kind) :
       LET e == doDifyRequest(out)
           r == [resp |-> Seen(out)]
       IN  IF LoopContinues(h[w].attempt, out)
           THEN Set(w, [attempt |-> h[w].attempt + 1,
                        tries |-> Append(h[w].tries, out.kind)])
           ELSE IF AbortsRun(h[w].kind, e) THEN Finish(w, e, r)
           ELSE IF h[w].kind = "upload"
           THEN Set(w, r @@ [pc |-> "api",
                             files |-> Attachment(IF e = "" THEN out.id ELSE <<>>,
                                                  h[w].filePath),
                             attempt |-> 0, tries |-> <<>>])
           ELSE IF PayloadMissing(out.field)
           THEN Finish(w, "missing", r)
           ELSE Set(w, r @@ [pc |-> "post", difyResponse |-> out.field,
                             conv |-> IF h[w].kind = "chat"
                                      THEN BackendConversation(h[w].request, h[w].n)
                                      ELSE ""]
                         @@ CallReturned)
  /\ UNCHANGED <<cfg, store, disk, dify, nreq>>

\* ----------------------------------------------------------- the classifier
\* A classifier that takes the data branch for every bot type.
ClassifyDataAnyBot(p, botType) ==
  IF p.obj /\ p.image_url # "" THEN "image"
  ELSE IF p.obj /\ p.file_url # "" THEN "file"
  ELSE IF p.obj /\ p.markdown # NoText THEN "markdown"
  ELSE IF p.obj /\ p.data THEN "data"
  ELSE "text"

\* A classifier that looks at file_url before image_url.
ClassifyFileFirst(p, botType) ==
  IF p.obj /\ p.file_url # "" THEN "file"
  ELSE IF p.obj /\ p.image_url # "" THEN "image"
  ELSE IF p.obj /\ p.markdown # NoText THEN "markdown"
  ELSE IF p.obj /\ p.data /\ botType = "workflow" THEN "data"
  ELSE "text"

\* postprocessDifyResponse, the decision: the first of image_url, file_url,
\* markdown, data (workflow only) that the parsed object has; plain text
\* otherwise and when the payload is no JSON object.
Classify(p, botType) ==
  IF p.obj /\ p.image_url # "" THEN "image"
  ELSE IF p.obj /\ p.file_url # "" THEN "file"
  ELSE IF p.obj /\ p.markdown # NoText THEN "markdown"
  ELSE IF p.obj /\ p.data /\ botType = "workflow" THEN "data"
  ELSE "text"

\* A classifier that falls through to the text send after every typed send.
FallbackAlways(sent) == TRUE

\* A classifier that ends after the typed send whatever its result.
FallbackNever(sent) == FALSE

\* A classifier that reads the result of the typed send the wrong way round.
FallbackInverted(sent) == sent

\* Whether postprocessDifyResponse goes on to the text fallback after the
\* typed send (SendImageMessage / SendFileMessage) returned sent.
FallbackAfterTyped(sent) == ~sent

\* A function that returns without its deferred os.Remove.
DeferredRemoveMissing(d, path) == d

\* The deferred os.Remove(path) of a function that returns or unwinds: the
\* directory d without the file ("" stands for no deferred call).
DeferredRemove(d, path) == d \ {path}

\* os.CreateTemp: a name no file of the directory has.
CreateTemp(d) == CHOOSE name \in TempNames : name \notin d

\* The content of a text or markdown message: the characters of the
\* payload it starts with, the NUL characters that follow them, and whether
\* the truncation notice ends it.
Body(text, pad, notice) == [text |-> text, pad |-> pad, notice |-> notice]
NoBody == Body(NoText, 0, FALSE)
BodyBytes(b) ==
  Bytes(b.text) + b.pad + (IF b.notice THEN NoticeBytes ELSE 0)

\* The characters the truncation keeps.
TruncatedLength == maxWeComMessageLength - noticeReserve

\* The allocation size classes of the Go runtime that the strings above
\* fall into, in characters (3072, 8192 and 9472 bytes).
SizeClassRunes == {768, 2048, 2368}

\* cap([]rune(s)): the language promises no less than the length; the
\* runtime rounds the allocation up to its size class.
RuneCapacities(t) ==
  {t.runes} \cup
  {c \in SizeClassRunes :
     c >= t.runes /\ \A d \in SizeClassRunes : d >= t.runes => c <= d}

\* postprocessDifyResponse, the plain-text path: the text that is sent for
\* the payload t when the converted slice has capacity c.  A slice
\* expression beyond the length but within the capacity gives the zeroed
\* tail of the allocation; beyond the capacity it panics.
Truncate(t, c) ==
  IF Bytes(t) <= maxWeComMessageLength
  THEN [panic |-> FALSE, body |-> Body(t, 0, FALSE)]
  ELSE IF TruncatedLength <= t.runes
  THEN [panic |-> FALSE, body |-> Body(Text(TruncatedLength, t.width), 0, TRUE)]
  ELSE IF TruncatedLength <= c
  THEN [panic |-> FALSE, body |-> Body(t, TruncatedLength - t.runes, TRUE)]
  ELSE [panic |-> TRUE, body |-> NoBody]

\* Whether the payload has a field that the chosen branch outranks.
Shadows(p, branch) ==
  CASE branch = "image" -> p.file_url # "" \/ p.markdown # NoText \/ p.data
    [] branch = "file" -> p.markdown # NoText \/ p.data
    [] branch = "markdown" -> p.data
    [] OTHER -> FALSE

\* What postprocessDifyResponse still reads of the payload once the branch
\* is chosen: the URL, the markdown field, or the length of the string
\* (with what sent it down the data or the plain-text path).
Relevant(p, branch) ==
  CASE branch = "image" ->
         Payload(FALSE, TRUE, p.image_url, "", NoText, FALSE, NoText)
    [] branch = "file" ->
         Payload(FALSE, TRUE, "", p.file_url, NoText, FALSE, NoText)
    [] branch = "markdown" ->
         Payload(FALSE, TRUE, "", "", p.markdown, FALSE, NoText)
    [] OTHER -> Payload(FALSE, p.obj, "", "", NoText, p.data, p.size)

\* The URL the image or file branch works on.
UrlOf(p, branch) ==
  IF branch = "image" THEN p.image_url
  ELSE IF branch = "file" THEN p.file_url ELSE ""

Sent(w, type, what, ok, body, url) ==
  Append(h[w].sends, [type |-> type, what |-> what, ok |-> ok,
                      body |-> body, url |-> url])

\* postprocessDifyResponse up to its first call that leaves the process or
\* touches the disk: the branch is chosen and, for an image or a file,
\* os.CreateTemp makes the scratch file.
PostStart(w) ==
  /\ h[w].pc = "post"
  /\ LET b == Classify(h[w].difyResponse, cfg.BotType)
         c(x) == [branch |-> x, resp |-> NoOutcome,
                  shadowed |-> Shadows(h[w].difyResponse, x),
                  difyResponse |-> Relevant(h[w].difyResponse, x)]
     IN  IF b \in {"image", "file"}
         THEN \E created \in BOOLEAN :
                IF created
                THEN LET name == CreateTemp(disk)
                     IN  /\ Set(w, [pc |-> "download", tempFilePath |-> name] @@ c(b))
                         /\ disk' = disk \cup {name}
                ELSE /\ Set(w, [pc |-> "fallback", why |-> "download"] @@ c(b))
                     /\ UNCHANGED disk
         ELSE /\ Set(w, [pc |-> IF b = "markdown" THEN "sendmd" ELSE "sendtext"]
                         @@ c(b))
              /\ UNCHANGED disk
  /\ UNCHANGED <<cfg, store, dify, nreq>>

\* DownloadFile into the scratch file; on failure the file is removed and
\* the text fallback follows.
Download(w) ==
  /\ h[w].pc = "download"
  /\ \E ok \in BOOLEAN :
       IF ok
       THEN /\ Set(w, [pc |-> "typed"])
            /\ UNCHANGED disk
       ELSE /\ Set(w, [pc |-> "fallback", why |-> "download",
                       tempFilePath |-> ""])
            /\ disk' = disk \ {h[w].tempFilePath}
  /\ UNCHANGED <<cfg, store, dify, nreq>>

\* SendImageMessage / SendFileMessage of the scratch file.  Success ends
\* postprocessDifyResponse (the deferred os.Remove runs); failure leads to
\* the text fallback.
SendTyped(w) ==
  /\ h[w].pc = "typed"
  /\ \E ok \in BOOLEAN :
       LET s == Sent(w, h[w].branch, "media", ok, NoBody, "")
       IN  IF FallbackAfterTyped(ok)
           THEN /\ Set(w, [pc |-> "fallback", why |-> "send", sends |-> s])
                /\ UNCHANGED disk
           ELSE /\ Finish(w, "", [sends |-> s, tempFilePath |-> ""])
                /\ disk' = DeferredRemove(disk, h[w].tempFilePath)
  /\ UNCHANGED <<cfg, store, dify, nreq>>

\* A classifier that drops the result of the fallback text.
FallbackResultDropped(ok) == ""

\* What postprocessDifyResponse returns from the fallback: the result of
\* SendTextMessage, "" for nil.
FallbackResult(ok) == IF ok THEN "" ELSE "send"

\* The text that replaces an image or a file that could not be delivered;
\* its result is the result of postprocessDifyResponse.
SendFallback(w) ==
  /\ h[w].pc = "fallback"
  /\ \E ok \in BOOLEAN :
       Finish(w, FallbackResult(ok),
              [sends |-> Sent(w, "text", h[w].why, ok, NoBody,
                              UrlOf(h[w].difyResponse, h[w].branch)),
               tempFilePath |-> ""])
  /\ disk' = DeferredRemove(disk, h[w].tempFilePath)
  /\ UNCHANGED <<cfg, store, dify, nreq>>

\* A classifier that cuts the markdown field like plain text.
MarkdownContentCut(p) == Truncate(p.markdown, maxWeComMessageLength).body

\* The content of the Markdown message: the field as it is.
MarkdownContent(p) == Body(p.markdown, 0, FALSE)

\* SendMarkdownMessage of the markdown field.
SendMarkdown(w) ==
  /\ h[w].pc = "sendmd"
  /\ \E ok \in BOOLEAN :
       Finish(w, IF ok THEN "" ELSE "send",
              [sends |-> Sent(w, "markdown", "markdown", ok,
                              MarkdownContent(h[w].difyResponse), ""),
               difyResponse |-> h[w].difyResponse])
  /\ UNCHANGED <<cfg, store, disk, dify, nreq>>

\* SendTextMessage of the payload: raw on the data branch, cut to the
\* WeCom limit on the plain-text path.  The frame keeps the payload for
\* the properties until HandleWebhook returns.
SendText(w) ==
  /\ h[w].pc = "sendtext"
  /\ IF h[w].branch = "data"
     THEN \E ok \in BOOLEAN :
            Finish(w, IF ok THEN "" ELSE "send",
                   [sends |-> Sent(w, "text", "data", ok,
                                   Body(h[w].difyResponse.size, 0, FALSE), ""),
                    difyResponse |-> h[w].difyResponse])
     ELSE \E c \in RuneCapacities(h[w].difyResponse.size) :
            LET t == Truncate(h[w].difyResponse.size, c)
            IN  IF t.panic THEN Panic(w, [difyResponse |-> h[w].difyResponse])
                ELSE \E ok \in BOOLEAN :
                       Finish(w, IF ok THEN "" ELSE "send",
                              [sends |-> Sent(w, "text", "text", ok, t.body, ""),
                               difyResponse |-> h[w].difyResponse])
  /\ UNCHANGED <<cfg, store, disk, dify, nreq>>

\* HandleWebhook returns: the deferred os.Remove of the saved upload runs.
\* The backend keeps the conversation of a chat run that succeeded.
Return(w) ==
  /\ h[w].pc = "return"
  /\ disk' = DeferredRemove(disk, h[w].filePath)
  /\ dify' = IF h[w].ret = "ok" /\ h[w].conv # "" /\ h[w].user \in DOMAIN dify
             THEN [dify EXCEPT ![h[w].user] = h[w].conv] ELSE dify
  /\ h' = [h EXCEPT ![w] = IdleFrame]
  /\ UNCHANGED <<cfg, store, nreq>>

Next ==
  \E w \in Workers :
    \/ Receive(w)
    \/ Resolve(w)
    \/ ConvertStart(w)
    \/ PreSend(w)
    \/ UploadFile(w)
    \/ CallAPI(w)
    \/ HttpAttempt(w)
    \/ PostStart(w)
    \/ Download(w)
    \/ SendTyped(w)
    \/ SendFallback(w)
    \/ SendMarkdown(w)
    \/ SendText(w)
    \/ Return(w)

Spec == Init /\ [][Next]_vars

\* ================================================================ properties
\* A run of ConvertAndSend has ended in the frame of w: HandleWebhook holds
\* its result and has not answered yet.
RunEnded(w) == h[w].pc = "return" /\ h[w].ret # ""

\* The sends of a sequence that returned success.
Delivered(s) == {i \in 1..Len(s) : s[i].ok}

\* The request of w is being resolved or is on its way to the backend.
BeforeBackend(w) == h[w].pc \in {"convert", "upload", "api", "http"}

\* What the store held for the user of w when the id of w was resolved.
SavedAt(w) == GetConversationID(h[w].storeAt, h[w].user)

\* C1: every run of the pipeline issues exactly one outbound send, whatever
\* the backend returns and whether or not the send succeeds.
C1_ExactlyOneSend ==
  \A w \in Workers : RunEnded(w) => Len(h[w].sends) = 1

\* C1, as the code has it: a run issues at most two sends and at most one of
\* them succeeds; a run that returns nil issued at least one and its last one
\* succeeded; a run issues two only when the first was an image or file send
\* that failed and the second is the text fallback; a run that fails for
\* another reason than a send issues none.
C1_SendsOfARun ==
  \A w \in Workers :
    RunEnded(w) =>
      LET s == h[w].sends
      IN  /\ Len(s) <= 2
          /\ Cardinality(Delivered(s)) <= 1
          /\ h[w].ret = "ok" => Len(s) >= 1 /\ s[Len(s)].ok
          /\ Len(s) = 2 => /\ s[1].type \in {"image", "file"}
                           /\ ~s[1].ok
                           /\ s[2].type = "text"
          /\ h[w].err \notin {"", "send"} => s = <<>>
          /\ h[w].err = "send" => Len(s) >= 1 /\ ~s[Len(s)].ok

\* A run that returned nil after two sends: the image send failed and the
\* text fallback went through.
C1_Witness ==
  \E w \in Workers :
    /\ RunEnded(w) /\ h[w].ret = "ok"
    /\ Len(h[w].sends) = 2 /\ h[w].sends[1].type = "image"

\* C2: within the classifier, once a typed send (image, file, markdown) has
\* returned success, no further send is issued in that run.
C2_NoSendAfterTypedSuccess ==
  \A w \in Workers :
    \A i \in 1..Len(h[w].sends) :
      h[w].sends[i].type \in {"image", "file", "markdown"} /\ h[w].sends[i].ok
        => i = Len(h[w].sends)

\* A run whose file send succeeded has ended.
C2_Witness ==
  \E w \in Workers :
    /\ RunEnded(w)
    /\ h[w].sends # <<>>
    /\ h[w].sends[1].type = "file" /\ h[w].sends[1].ok

\* C3: after a chat run for a user succeeded, every later request of that
\* user that omits the conversation id reaches the backend with the id of
\* that earlier conversation.
C3_ConversationContinues ==
  \A w \in Workers :
    h[w].pc = "http" /\ h[w].kind = "chat" /\ h[w].conversationID = ""
      /\ h[w].user \in DOMAIN dify /\ dify[h[w].user] # ""
      => h[w].request.conversation_id = dify[h[w].user]

\* C4: a non-empty conversation id of the request is the id the pipeline is
\* called with and the id the store holds for the user afterwards, whatever
\* the store held before.
C4_SuppliedIdIsSavedAndUsed ==
  \A w \in Workers :
    h[w].pc = "convert" /\ h[w].conversationID # ""
      => /\ h[w].currentConversationID = h[w].conversationID
         /\ h[w].user \in DOMAIN store
         /\ store[h[w].user] = h[w].conversationID
         /\ \A u \in DOMAIN store \ {h[w].user} :
              u \in DOMAIN h[w].storeAt /\ store[u] = h[w].storeAt[u]

\* A supplied id has replaced a different one.
C4_Witness ==
  \E w \in Workers :
    /\ h[w].pc = "convert" /\ h[w].conversationID # ""
    /\ SavedAt(w).ok /\ SavedAt(w).id # h[w].conversationID

\* C5: when the user has a saved id and the request omits the id, the run
\* is processed with exactly the saved id (the chat request carries it) and
\* the request leaves the store as it was.
C5_SavedIdIsReused ==
  \A w \in Workers :
    BeforeBackend(w) /\ h[w].conversationID = "" /\ SavedAt(w).ok
      => /\ h[w].currentConversationID = SavedAt(w).id
         /\ store = h[w].storeAt
         /\ h[w].pc = "http" /\ h[w].kind = "chat"
              => h[w].request.conversation_id = SavedAt(w).id

\* A chat request without an id is on its way with the saved id.
C5_Witness ==
  \E w \in Workers :
    /\ h[w].pc = "http" /\ h[w].kind = "chat"
    /\ h[w].conversationID = "" /\ SavedAt(w).ok
    /\ h[w].request.conversation_id = "c1"

\* C6: when the request omits the id and the store has no entry for the
\* user, the backend is called with an empty conversation id, no id is
\* generated, and the store still has no entry for the user afterwards.
C6_NoIdIsGenerated ==
  \A w \in Workers :
    BeforeBackend(w) /\ h[w].conversationID = ""
      /\ h[w].user \notin DOMAIN h[w].storeAt
      => /\ h[w].currentConversationID = ""
         /\ h[w].user \notin DOMAIN store
         /\ store = h[w].storeAt
         /\ h[w].pc = "http" /\ h[w].kind # "upload"
              => h[w].request.conversation_id = ""

\* A chat request of a user nobody has saved an id for is on its way.
C6_Witness ==
  \E w \in Workers :
    /\ h[w].pc = "http" /\ h[w].kind = "chat"
    /\ h[w].conversationID = ""
    /\ h[w].user \notin DOMAIN h[w].storeAt
    /\ h[w].request.conversation_id = ""

\* C7: the retrying primitive makes at most 3 attempts per call; an attempt
\* is followed by another one only when it failed at the transport level,
\* so an attempt that obtained an HTTP response, whatever its status, is the
\* last one.
C7_RetryOnlyOnTransportFailure ==
  \A w \in Workers :
    /\ h[w].pc = "http"
         => /\ Len(h[w].tries) = h[w].attempt
            /\ h[w].attempt + 1 <= 3
            /\ \A i \in 1..Len(h[w].tries) : h[w].tries[i] = "transport"
    /\ h[w].pc # "http" => h[w].tries = <<>> /\ h[w].attempt = 0
    /\ h[w].err = "transport" => h[w].resp.kind = "transport"

\* The third attempt of a call has failed at the transport level as well.
C7_Witness ==
  \E w \in Workers :
    RunEnded(w) /\ h[w].err = "transport" /\ h[w].resp.kind = "transport"

C9_NoRequestWithoutCredentials ==
  cfg.BaseURL = "" \/ cfg.APIKey = ""
    => \A w \in Workers :
         /\ h[w].pc # "http"
         /\ h[w].tries = <<>> /\ h[w].resp = NoOutcome
         /\ h[w].request = NoRequest
         /\ h[w].ops # <<>>
              => /\ RunEnded(w) /\ h[w].ret = "error" /\ h[w].err = "config"
                 /\ Len(h[w].ops) = 1
                 /\ h[w].sends = <<>>

\* The upload of a configuration with a base URL and no API key has
\* returned its error.
C9_Witness ==
  \E w \in Workers :
    /\ cfg.BaseURL # "" /\ cfg.APIKey = ""
    /\ RunEnded(w) /\ h[w].err = "config" /\ h[w].ops = <<"upload">>

\* C10: a backend operation that succeeds has its payload (a chat answer or
\* completion text that is not empty, workflow data that is not null); a
\* response with a success status that lacks the field is an error and the
\* run sends nothing.
C10_SuccessHasPayload ==
  \A w \in Workers :
    /\ h[w].pc = "post" => ~h[w].difyResponse.empty /\ h[w].resp.present
    /\ h[w].err = "missing"
         => /\ RunEnded(w) /\ h[w].ret = "error" /\ h[w].status = 500
            /\ h[w].sends = <<>>
    /\ h[w].ops # <<>> /\ h[w].ops[Len(h[w].ops)] # "upload"
         /\ h[w].resp.kind = "response" /\ h[w].resp.status = 200
         /\ h[w].resp.valid /\ ~h[w].resp.present
         => h[w].err = "missing"

\* A workflow run has ended on a 200 response without data.
C10_Witness ==
  \E w \in Workers :
    /\ RunEnded(w) /\ h[w].err = "missing" /\ h[w].ops = <<"workflow">>
    /\ h[w].resp.status = 200 /\ h[w].resp.valid

\* The typed fields of a payload that parses as a JSON object are all
\* absent or empty.
NoTypedField(p) == p.image_url = "" /\ p.file_url = "" /\ p.markdown = NoText

\* C11: the classifier picks the branch by the fixed priority image_url,
\* file_url, markdown, data (workflow only), plain text: the first field
\* that is present decides whatever the later fields are, and a payload that
\* is no JSON object takes the plain-text branch.
C11_FirstFieldDecides ==
  [][\A w \in Workers :
       h[w].pc = "post" =>
         LET p == h[w].difyResponse
             b == h'[w].branch
         IN  /\ ~p.obj => b = "text"
             /\ p.obj /\ p.image_url # "" => b = "image"
             /\ p.obj /\ p.image_url = "" /\ p.file_url # "" => b = "file"
             /\ p.obj /\ p.image_url = "" /\ p.file_url = ""
                  /\ p.markdown # NoText => b = "markdown"
             /\ p.obj /\ NoTypedField(p) /\ p.data
                  => b = IF cfg.BotType = "workflow" THEN "data" ELSE "text"
             /\ p.obj /\ NoTypedField(p) /\ ~p.data => b = "text"
             /\ h'[w].pc = CASE b \in {"image", "file"} ->
                                 IF h'[w].tempFilePath # "" THEN "download"
                                 ELSE "fallback"
                              [] b = "markdown" -> "sendmd"
                              [] OTHER -> "sendtext"]_vars

\* The file branch was chosen for a payload that has a later field as well.
C11_Witness ==
  \E w \in Workers :
    h[w].pc = "download" /\ h[w].branch = "file" /\ h[w].shadowed

\* C12: in the image_url and file_url branches, when creating the scratch
\* file, the download or the delivery of the image / file fails, a Text
\* message naming the URL and the failure is sent instead, and no Image /
\* File message is delivered in that run.
C12_FailureIsToldAsText ==
  \A w \in Workers :
    RunEnded(w) /\ h[w].branch \in {"image", "file"} =>
      LET s == h[w].sends
          typed == [type |-> h[w].branch, what |-> "media", ok |-> TRUE,
                    body |-> NoBody, url |-> ""]
          n == Len(s)
      IN  \/ s = <<typed>>
          \/ /\ n \in {1, 2}
             /\ s[n].type = "text" /\ s[n].what \in {"download", "send"}
             /\ s[n].url = IF h[w].branch = "image" THEN "http://x/y.png"
                           ELSE "http://x/z"
             /\ \A i \in 1..n : s[i].type \in {"image", "file"} => ~s[i].ok
             /\ s[n].what = "send"
                  <=> n = 2 /\ s[1].type = h[w].branch /\ ~s[1].ok
             /\ s[n].what = "download" <=> n = 1

\* The download of an image failed and the text about it has been sent.
C12_Witness ==
  \E w \in Workers :
    /\ RunEnded(w) /\ h[w].branch = "image"
    /\ Len(h[w].sends) = 1 /\ h[w].sends[1].what = "download"
    /\ h[w].sends[1].ok

\* C13: the classifier never returns an error from the image_url or
\* file_url branch, whatever sub-step fails, the delivery of the fallback
\* text included.
C13_BranchNeverFails ==
  \A w \in Workers :
    RunEnded(w) /\ h[w].branch \in {"image", "file"} => h[w].ret = "ok"

\* C13, as the code has it: a failure to create the scratch file, to
\* download or to deliver the image / file does not by itself make the
\* classifier fail; its result is then the result of the fallback text, so
\* it returns an error, and ConvertAndSend with it, exactly when the
\* delivery of the fallback text fails.
C13_FailsWithTheFallbackOnly ==
  \A w \in Workers :
    RunEnded(w) /\ h[w].branch \in {"image", "file"} =>
      LET s == h[w].sends
      IN  /\ s # <<>>
          /\ h[w].ret \in {"ok", "error"}
          /\ h[w].ret = "error"
               <=> s[Len(s)].type = "text" /\ ~s[Len(s)].ok
          /\ h[w].ret = "error" => h[w].err = "send" /\ h[w].status = 500
          /\ h[w].ret = "ok" => h[w].status = 200

\* The file could not be delivered and the text about it neither.
C13_Witness ==
  \E w \in Workers :
    /\ RunEnded(w) /\ h[w].branch = "file" /\ h[w].ret = "error"
    /\ Len(h[w].sends) = 2 /\ h[w].sends[2].what = "send"

\* The sends of w that carry the payload on the plain-text path.
PlainSends(w) ==
  {i \in 1..Len(h[w].sends) : h[w].sends[i].what = "text"}

\* C14: on the plain-text path a payload of at most 2048 bytes is sent
\* unmodified, and a longer one is sent truncated with the notice appended
\* so that the text sent has at most 2048 bytes.
C14_SentTextFitsTheLimit ==
  \A w \in Workers :
    \A i \in PlainSends(w) :
      LET b == h[w].sends[i].body
      IN  /\ BodyBytes(b) <= 2048
          /\ ~b.notice => b.pad = 0

\* C15: for every plain-text payload of more than 2048 bytes, those of
\* multi-byte characters with fewer characters than the truncation keeps
\* included, the truncation completes normally and the text sent is a prefix
\* of whole characters of the payload followed by the notice.
C15_TruncationCompletes ==
  \A w \in Workers :
    /\ h[w].ret # "panic"
    /\ \A i \in PlainSends(w) : h[w].sends[i].body.pad = 0

\* The one send of a run that has ended.
OnlySend(w) == h[w].sends[1]

C17_MarkdownIsForwardedAsItIs ==
  \A w \in Workers :
    /\ h[w].pc = "sendmd" => h[w].branch = "markdown" /\ h[w].sends = <<>>
    /\ RunEnded(w) /\ h[w].branch = "markdown"
         => /\ Len(h[w].sends) = 1
            /\ OnlySend(w).type = "markdown"
            /\ OnlySend(w).body = [text |-> h[w].difyResponse.markdown,
                                   pad |-> 0, notice |-> FALSE]
            /\ h[w].ret = IF OnlySend(w).ok THEN "ok" ELSE "error"
    /\ \A i \in 1..Len(h[w].sends) :
         h[w].sends[i].type = "markdown" => h[w].branch = "markdown"

\* A markdown field of more than 2048 bytes has been sent whole.
C17_Witness ==
  \E w \in Workers :
    /\ RunEnded(w) /\ h[w].branch = "markdown" /\ OnlySend(w).ok
    /\ Bytes(OnlySend(w).body.text) > 2048 /\ ~OnlySend(w).body.notice

\* C18: when the pre-filter short-circuits (the message begins with
\* "/image "), the pipeline sends the pre-filter's reply as one Text message
\* and returns without an upload and without a backend call, for every bot
\* type.
C18_CommandNeverReachesTheBackend ==
  \A w \in Workers :
    h[w].message = "/image cat" =>
      /\ h[w].pc \in {"resolve", "convert", "presend", "return"}
      /\ h[w].ops = <<>> /\ h[w].tries = <<>> /\ h[w].resp = NoOutcome
      /\ h[w].request = NoRequest /\ h[w].branch = ""
      /\ h[w].pc # "return" => h[w].sends = <<>>
      /\ RunEnded(w)
           => /\ Len(h[w].sends) = 1
              /\ OnlySend(w).type = "text" /\ OnlySend(w).what = "reply"
              /\ h[w].ret = IF OnlySend(w).ok THEN "ok" ELSE "error"

\* The reply to a command that came with an attachment has been sent, with
\* a bot type the pipeline does not support.
C18_Witness ==
  \E w \in Workers :
    /\ RunEnded(w) /\ h[w].message = "/image cat" /\ h[w].filePath # ""
    /\ cfg.BotType = "unknown" /\ h[w].ret = "ok"
    /\ Len(h[w].sends) = 1

\* C19: an empty message is replaced by the configured default prompt; when
\* it is still empty (no default configured) and there is no attachment
\* path, ConvertAndSend returns an error having made no upload, no backend
\* call and no outbound send.
C19_EmptyRequestIsRefused ==
  \A w \in Workers :
    /\ h[w].message = "" /\ h[w].pc \notin {"idle", "resolve", "convert"}
         /\ (h[w].pc = "return" => RunEnded(w))
         => IF cfg.DefaultPrompt = "" /\ h[w].filePath = ""
            THEN /\ RunEnded(w) /\ h[w].ret = "error" /\ h[w].err = "empty"
                 /\ h[w].ops = <<>> /\ h[w].sends = <<>>
                 /\ h[w].resp = NoOutcome /\ h[w].tries = <<>>
            ELSE /\ h[w].err # "empty"
                 /\ h[w].pc \in {"upload", "api", "http"}
                      => h[w].query = cfg.DefaultPrompt
                 /\ h[w].pc = "http" /\ h[w].kind # "upload"
                      => h[w].request.query = cfg.DefaultPrompt
    /\ h[w].err = "empty"
         => h[w].message = "" /\ cfg.DefaultPrompt = "" /\ h[w].filePath = ""

\* A chat run without message, default prompt and attachment has been
\* refused.
C19_Witness ==
  \E w \in Workers :
    /\ RunEnded(w) /\ h[w].err = "empty" /\ h[w].message = ""
    /\ cfg.BotType = "chat" /\ cfg.BaseURL # "" /\ cfg.APIKey # ""

\* C20: with bot type "chat" and an attachment path, the upload is
\* performed before the chat call, and when the upload fails the run
\* returns an error with no chat call and no outbound send.
C20_UploadComesFirstAndItsFailureEndsTheRun ==
  \A w \in Workers :
    cfg.BotType = "chat" /\ h[w].filePath # "" =>
      /\ h[w].ops \in {<<>>, <<"upload">>, <<"upload", "chat">>}
      /\ h[w].pc = "upload" => h[w].ops = <<>>
      /\ h[w].pc = "http"
           => h[w].ops = IF h[w].kind = "upload" THEN <<"upload">>
                         ELSE <<"upload", "chat">>
      /\ h[w].pc = "api"
           => /\ h[w].ops = <<"upload">>
              /\ h[w].resp.kind = "response" /\ h[w].resp.status = 200
              /\ h[w].resp.valid
      /\ h[w].pc \in {"post", "download", "typed", "fallback", "sendmd", "sendtext"}
           => h[w].ops = <<"upload", "chat">>
      /\ RunEnded(w) /\ h[w].ops = <<"upload">>
           => /\ h[w].ret = "error" /\ h[w].status = 500
              /\ h[w].err \in {"config", "open", "transport", "read",
                               "status", "decode"}
              /\ h[w].sends = <<>>

\* The upload got an error status and the run has ended on it.
C20_Witness ==
  \E w \in Workers :
    /\ cfg.BotType = "chat" /\ h[w].filePath # ""
    /\ RunEnded(w) /\ h[w].ops = <<"upload">> /\ h[w].err = "status"
    /\ h[w].resp.status = 404

\* C21: when the upload succeeds but its reply carries no string "id", the
\* run does not fail: the chat call is still issued, with an empty list of
\* attachments.
C21_UploadWithoutIdGoesOn ==
  \A w \in Workers :
    /\ h[w].pc = "api" /\ h[w].ops = <<"upload">> /\ h[w].resp.id = <<>>
         => /\ h[w].files = <<>>
            /\ h[w].resp.kind = "response" /\ h[w].resp.status = 200
            /\ ~CredentialsMissing(cfg)
    /\ h[w].pc = "http" /\ h[w].kind = "chat"
         => /\ h[w].request.files = h[w].files
            /\ h[w].request.path = "/v1/chat-messages"
    /\ RunEnded(w) /\ h[w].ops = <<"upload">>
         => ~(h[w].resp.kind = "response" /\ h[w].resp.status = 200
                /\ h[w].resp.valid)

\* The chat request that follows an upload is on its way without an
\* attachment.
C21_Witness ==
  \E w \in Workers :
    /\ h[w].pc = "http" /\ h[w].kind = "chat"
    /\ h[w].ops = <<"upload", "chat">> /\ h[w].request.files = <<>>

\* C22: when the upload returns an "id", the chat request of the same run
\* carries exactly one attachment, whose upload_file_id is that id and whose
\* transfer method is "local_file".
C22_AttachmentCarriesTheUploadId ==
  \A w \in Workers :
    /\ h[w].pc = "api" /\ h[w].ops = <<"upload">> /\ h[w].resp.id # <<>>
         => /\ Len(h[w].files) = 1
            /\ h[w].files[1].upload_file_id = h[w].resp.id[1]
            /\ h[w].files[1].transfer_method = "local_file"
    /\ h[w].pc = "http" /\ h[w].kind = "chat"
         => /\ h[w].request.files = h[w].files
            /\ Len(h[w].request.files) <= 1
            /\ h[w].filePath = "" => h[w].request.files = <<>>
    /\ h[w].pc = "http" /\ h[w].kind # "chat" => h[w].request.files = <<>>

\* The chat request is on its way with the id the upload returned.
C22_Witness ==
  \E w \in Workers :
    /\ h[w].pc = "http" /\ h[w].kind = "chat"
    /\ h[w].ops = <<"upload", "chat">>
    /\ Len(h[w].request.files) = 1
    /\ h[w].request.files[1].upload_file_id = "file-1"

\* The positions of a run from its first call that leaves the process on.
OnTheNetwork ==
  {"presend", "upload", "api", "http", "post", "download", "typed", "fallback",
   "sendmd", "sendtext"}

\* C23: with an unsupported bot type configured, every call of
\* ConvertAndSend fails with a configuration error before any network call
\* (upload, backend call, download or outbound send).
C23_EveryCallFailsOnTheConfiguration ==
  cfg.BotType = "unknown" =>
    \A w \in Workers :
      /\ h[w].pc \notin OnTheNetwork
      /\ RunEnded(w)
           => /\ h[w].ret = "error" /\ h[w].err = "unsupported"
              /\ h[w].ops = <<>> /\ h[w].sends = <<>>

\* C23, as the code has it: with an unsupported bot type no call of
\* ConvertAndSend makes an upload, a backend call or a download.  The
\* pre-filter and the empty-request check come before the switch on the bot
\* type: a message the pre-filter answers is replied to with one Text
\* message and the call returns the result of that send; an empty message
\* without default prompt and attachment fails as an empty request; every
\* other call fails on the bot type, having sent nothing.
C23_UnsupportedTypeFailsAfterThePreFilter ==
  cfg.BotType = "unknown" =>
    \A w \in Workers :
      /\ h[w].pc \notin OnTheNetwork \ {"presend"}
      /\ h[w].ops = <<>> /\ h[w].tries = <<>> /\ h[w].resp = NoOutcome
      /\ h[w].request = NoRequest /\ h[w].branch = "" /\ h[w].tempFilePath = ""
      /\ h[w].pc = "presend" => h[w].message = "/image cat"
      /\ RunEnded(w) =>
           IF h[w].message = "/image cat"
           THEN /\ Len(h[w].sends) = 1 /\ OnlySend(w).what = "reply"
                /\ h[w].ret = IF OnlySend(w).ok THEN "ok" ELSE "error"
           ELSE /\ h[w].ret = "error" /\ h[w].status = 500 /\ h[w].sends = <<>>
                /\ h[w].err = IF h[w].message = "" /\ cfg.DefaultPrompt = ""
                                   /\ h[w].filePath = ""
                              THEN "empty" ELSE "unsupported"

\* A message with an attachment has been refused for the bot type.
C23_Witness ==
  \E w \in Workers :
    /\ cfg.BotType = "unknown" /\ RunEnded(w) /\ h[w].err = "unsupported"
    /\ h[w].message = "hello" /\ h[w].filePath # ""

\* C24: for every inbound message with non-empty text and no attachment,
\* the run invokes exactly one backend client operation, the one of the
\* configured bot type.
C24_ExactlyOneOperation ==
  \A w \in Workers :
    RunEnded(w) /\ h[w].message # "" /\ h[w].filePath = ""
      => h[w].ops = <<cfg.BotType>>

\* C24, as the code has it: a run for a message with non-empty text and no
\* attachment invokes exactly one backend client operation, that of the
\* configured bot type with its endpoint, when the bot type is one of chat,
\* completion and workflow and the pre-filter does not answer the message;
\* otherwise it invokes none.
C24_OneOperationUnlessAnsweredOrUnsupported ==
  \A w \in Workers :
    h[w].message # "" /\ h[w].filePath = "" =>
      IF h[w].message = "/image cat" \/ cfg.BotType = "unknown"
      THEN h[w].ops = <<>> /\ h[w].pc \notin {"api", "http"}
      ELSE /\ h[w].pc \in {"resolve", "convert", "api"} => h[w].ops = <<>>
           /\ h[w].pc \notin {"resolve", "convert", "api"}
                /\ (h[w].pc = "return" => RunEnded(w))
                => h[w].ops = <<cfg.BotType>>
           /\ h[w].pc # "upload"
           /\ h[w].pc = "http"
                => /\ h[w].kind = cfg.BotType
                   /\ h[w].request.path =
                        CASE cfg.BotType = "chat" -> "/v1/chat-messages"
                          [] cfg.BotType = "completion" -> "/v1/completion-messages"
                          [] cfg.BotType = "workflow" -> "/v1/workflows/run"

\* A workflow run for a message without attachment has ended after its one
\* operation.
C24_Witness ==
  \E w \in Workers :
    /\ RunEnded(w) /\ h[w].message = "hello" /\ h[w].filePath = ""
    /\ cfg.BotType = "workflow" /\ h[w].ops = <<"workflow">> /\ h[w].ret = "ok"

\* C25: every temporary file an operation creates (the scratch file of the
\* classifier's image / file branch, the upload the handler saves) no longer
\* exists when that operation returns, on every exit path: success,
\* degradation to text and hard error.
C25_NoTemporaryFileIsLeftBehind ==
  \A w \in Workers :
    /\ h[w].pc = "idle" => disk = {}
    /\ h[w].pc = "return" => disk \subseteq {h[w].filePath} /\ h[w].tempFilePath = ""
    /\ h[w].pc \in {"download", "typed"}
         => h[w].tempFilePath # "" /\ h[w].tempFilePath \in disk
    /\ h[w].pc \notin {"download", "typed", "fallback"} => h[w].tempFilePath = ""
    /\ h[w].pc = "fallback" /\ h[w].why = "download" => h[w].tempFilePath = ""
    /\ disk \subseteq {h[w].filePath, h[w].tempFilePath}

\* postprocessDifyResponse has returned an error after the file could be
\* sent neither as a file nor as text; the scratch file is gone and the
\* saved upload is still there for the handler to remove.
C25_Witness ==
  \E w \in Workers :
    /\ RunEnded(w) /\ h[w].branch = "file" /\ h[w].err = "send"
    /\ Len(h[w].sends) = 2
    /\ h[w].filePath # "" /\ disk = {h[w].filePath}

\* The users and ids a caller of the store may name.
StoreUsers == (UserFields \ {""}) \cup {UuidTable[1]}
StoreIds == ConversationFields \ {""}

\* C29: SaveConversationID is idempotent: repeating save(user, id) with the
\* same id leaves the stored mapping equal to the mapping after the first
\* save, and every get(user) that follows returns (id, found).
C29_SaveIsIdempotent ==
  /\ \A w \in Workers :
       h[w].pc = "convert" /\ h[w].conversationID # ""
         => /\ GetConversationID(store, h[w].user)
                 = [id |-> h[w].conversationID, ok |-> TRUE]
            /\ SavedAt(w) = [id |-> h[w].conversationID, ok |-> TRUE]
                 => store = h[w].storeAt
  /\ \A u \in StoreUsers, i \in StoreIds :
       LET s1 == SaveConversationID(store, u, i)
           s2 == SaveConversationID(s1, u, i)
           s3 == SaveConversationID(s2, u, i)
       IN  /\ s2 = s1 /\ s3 = s1
           /\ GetConversationID(s1, u) = [id |-> i, ok |-> TRUE]
           /\ GetConversationID(s3, u) = [id |-> i, ok |-> TRUE]
           /\ \A v \in StoreUsers \ {u} :
                GetConversationID(s3, v) = GetConversationID(store, v)

\* A request has saved for its user the id the store already held for that
\* user.
C29_Witness ==
  \E w \in Workers :
    /\ h[w].pc = "convert" /\ h[w].conversationID = "c1"
    /\ SavedAt(w) = [id |-> "c1", ok |-> TRUE]
    /\ store = h[w].storeAt

\* C30: a stored conversation record never disappears on its own: once a
\* user has a stored id, get(user) keeps returning found through every step
\* of the handler and the pipeline, none of which calls
\* DeleteConversationID; only the id of the entry may change, to the id a
\* request of that user supplies.  Of the store's own operations only
\* DeleteConversationID for that user removes the record.
C30_StoredRecordStays ==
  /\ [][\A u \in DOMAIN store :
          /\ GetConversationID(store', u).ok
          /\ GetConversationID(store', u).id # GetConversationID(store, u).id
               => \E w \in Workers :
                    /\ h[w].pc = "resolve" /\ h[w].user = u
                    /\ h[w].conversationID = GetConversationID(store', u).id]_vars
  /\ [](\A u \in DOMAIN store, v \in StoreUsers, i \in StoreIds :
          /\ GetConversationID(SaveConversationID(store, v, i), u).ok
          /\ GetConversationID(NewConversationID(store, v, UuidTable[1]), u).ok
          /\ GetConversationID(DeleteConversationID(store, v), u).ok <=> v # u)

\* A user with a stored id has sent a later request without an id, and the
\* run of that request has ended.
C30_Witness ==
  \E w \in Workers :
    /\ RunEnded(w) /\ h[w].n = 2 /\ h[w].ret = "ok"
    /\ GetConversationID(store, h[w].user) = [id |-> "c2", ok |-> TRUE]

\* ============================================== requests that run together
\* net/http serves every request on a goroutine of its own, so requests
\* overlap.  This part follows two goroutines through what they share: the
\* conversation store with its lock and the files under os.TempDir().  The
\* calls to Dify and to WeCom touch neither and are left out; the bot type
\* is "chat", the only one that reads the saved upload.

\* Requests received in one behaviour of the goroutines below.
MaxOverlapping == 3

Goroutines == {1, 2}
OverlappingUsers == {"u1", "u2"}
\* The file names of the uploads: none, and two different ones.
OverlappingNames == {"", "a.png", "b.png"}

\* The value a reader or a later writer finds where two unsynchronised
\* writers stored into the same map slot.
Torn == "torn"

\* A goroutine that is not serving a request: its position and the locals
\* of HandleWebhook that reach the store and the disk.
IdleGoroutine ==
  [pc |-> "idle", n |-> 0, user |-> "", conversationID |-> "", filePath |-> "",
   currentConversationID |-> "", ok |-> FALSE, tempFilePath |-> "", err |-> ""]

InitOverlapping ==
  /\ cfg = [BotType |-> "chat", BaseURL |-> "https://api.dify.ai",
            APIKey |-> "app-key", DefaultPrompt |-> "", EnableAuth |-> FALSE]
  /\ store = EmptyStore
  /\ disk = {}
  /\ dify = [u \in UserFields \ {""} |-> ""]
  /\ nreq = 0
  /\ h = [g \in Goroutines |-> IdleGoroutine]

\* sync.RWMutex by the positions of the goroutines: between Lock and Unlock
\* a goroutine is at "saving" or "assigned", between RLock and RUnlock at
\* "reading".
Writers(hh) == {g \in DOMAIN hh : hh[g].pc \in {"saving", "assigned"}}
Readers(hh) == {g \in DOMAIN hh : hh[g].pc = "reading"}

\* A lock that lets a writer in beside another writer.
MayLockBesideWriters(hh, g) == Readers(hh) \ {g} = {}

\* mu.Lock() returns: no other goroutine holds the lock, for writing or for
\* reading.
MayLock(hh, g) == (Writers(hh) \cup Readers(hh)) \ {g} = {}

\* A store whose GetConversationID takes no lock.
MayRLockAlways(hh, g) == TRUE

\* mu.RLock() returns: no other goroutine holds the lock for writing.
MayRLock(hh, g) == Writers(hh) \ {g} = {}

\* HandleWebhook up to the conversation id management, for a request that
\* passes the checks: the fields are read and an uploaded file is written
\* to os.TempDir()/<its name>, created or truncated.
AcceptRequest(g) ==
  /\ h[g].pc = "idle"
  /\ nreq < MaxOverlapping
  /\ nreq' = nreq + 1
  /\ \E user \in OverlappingUsers, conversationID \in ConversationFields,
        name \in OverlappingNames :
       /\ Set(g, [pc |-> "store", n |-> nreq + 1, user |-> user,
                  conversationID |-> conversationID,
                  filePath |-> UploadPath(name)])
       /\ disk' = IF name = "" THEN disk ELSE disk \cup {UploadPath(name)}
  /\ UNCHANGED <<cfg, store, dify>>

\* SaveConversationID, mu.Lock().
SaveLock(g) ==
  /\ h[g].pc = "store" /\ h[g].conversationID # ""
  /\ MayLock(h, g)
  /\ Set(g, [pc |-> "saving"])
  /\ UNCHANGED <<cfg, store, disk, dify, nreq>>

\* SaveConversationID, the first half of s.store[userID] = conversationID:
\* the map finds the slot of the key, inserting the key with the zero value
\* when it is new.
SaveAssign(g) ==
  /\ h[g].pc = "saving"
  /\ store' = IF h[g].user \in DOMAIN store THEN store
              ELSE SaveConversationID(store, h[g].user, "")
  /\ Set(g, [pc |-> "assigned"])
  /\ UNCHANGED <<cfg, disk, dify, nreq>>

\* SaveConversationID, the second half of the assignment and the deferred
\* mu.Unlock().  Storing into a slot that another goroutine is storing into
\* is a data race: the slot may end up with a mixture of the two strings.
SaveUnlock(g) ==
  /\ h[g].pc = "assigned"
  /\ \E v \in {h[g].conversationID} \cup
              (IF \E b \in Writers(h) \ {g} :
                     h[b].pc = "assigned" /\ h[b].user = h[g].user
               THEN {Torn} ELSE {}) :
       store' = SaveConversationID(store, h[g].user, v)
  /\ Set(g, [pc |-> "convert", currentConversationID |-> h[g].conversationID])
  /\ UNCHANGED <<cfg, disk, dify, nreq>>

\* GetConversationID, mu.RLock().
GetRLock(g) ==
  /\ h[g].pc = "store" /\ h[g].conversationID = ""
  /\ MayRLock(h, g)
  /\ Set(g, [pc |-> "reading"])
  /\ UNCHANGED <<cfg, store, disk, dify, nreq>>

\* GetConversationID, the read of the map and the deferred mu.RUnlock();
\* HandleWebhook uses the id when it was found.
GetRUnlock(g) ==
  /\ h[g].pc = "reading"
  /\ LET r == GetConversationID(store, h[g].user)
     IN  Set(g, [pc |-> "convert", ok |-> r.ok,
                 currentConversationID |-> IF r.ok THEN r.id ELSE ""])
  /\ UNCHANGED <<cfg, store, disk, dify, nreq>>

\* ConvertAndSend up to the chat call: a request with an attachment reads
\* the saved upload (UploadFile: os.Open, io.Copy) and fails when the file
\* cannot be opened.
OpenUpload(g) ==
  /\ h[g].pc = "convert"
  /\ IF h[g].filePath # "" /\ h[g].filePath \notin disk
     THEN Set(g, [pc |-> "return", err |-> "open"])
     ELSE Set(g, [pc |-> "post"])
  /\ UNCHANGED <<cfg, store, disk, dify, nreq>>

\* postprocessDifyResponse: an answer with an image_url or a file_url gets
\* a scratch file from os.CreateTemp; any other answer needs none.
ScratchFile(g) ==
  /\ h[g].pc = "post"
  /\ \E typed \in BOOLEAN :
       IF typed
       THEN LET name == CreateTemp(disk)
            IN  /\ Set(g, [pc |-> "typed", tempFilePath |-> name])
                /\ disk' = disk \cup {name}
       ELSE /\ Set(g, [pc |-> "return"])
            /\ UNCHANGED disk
  /\ UNCHANGED <<cfg, store, dify, nreq>>

\* postprocessDifyResponse returns after the download and the sends: the
\* scratch file is removed.
RemoveScratch(g) ==
  /\ h[g].pc = "typed"
  /\ disk' = DeferredRemove(disk, h[g].tempFilePath)
  /\ Set(g, [pc |-> "return", tempFilePath |-> ""])
  /\ UNCHANGED <<cfg, store, dify, nreq>>

\* HandleWebhook returns: the deferred os.Remove of the saved upload runs.
HandlerReturns(g) ==
  /\ h[g].pc = "return"
  /\ disk' = DeferredRemove(disk, h[g].filePath)
  /\ h' = [h EXCEPT ![g] = IdleGoroutine]
  /\ UNCHANGED <<cfg, store, dify, nreq>>

NextOverlapping ==
  \E g \in Goroutines :
    \/ AcceptRequest(g)
    \/ SaveLock(g)
    \/ SaveAssign(g)
    \/ SaveUnlock(g)
    \/ GetRLock(g)
    \/ GetRUnlock(g)
    \/ OpenUpload(g)
    \/ ScratchFile(g)
    \/ RemoveScratch(g)
    \/ HandlerReturns(g)

SpecOverlapping == InitOverlapping /\ [][NextOverlapping]_vars

\* The files the invocation on g has written and not yet removed.
PathsOf(g) == {h[g].filePath, h[g].tempFilePath} \ {""}

\* C26: temporary files are never shared across invocations: no path is
\* written, read or deleted by two concurrently running invocations, so no
\* invocation deletes or overwrites a file another one is still using, two
\* uploads with the same file name included.
C26_NoPathIsShared ==
  \A a \in Goroutines :
    /\ \A b \in Goroutines \ {a} : PathsOf(a) \cap PathsOf(b) = {}
    /\ h[a].pc \in {"store", "saving", "assigned", "reading", "convert"}
         => PathsOf(a) \subseteq disk
    /\ h[a].err # "open"

\* C27: for one user, the conversation-id resolution of a request (the read
\* of the stored id, or the write of the supplied id) is atomic with respect
\* to every other store operation: while a goroutine writes, no other one
\* reads or writes, and a Get finds either no entry or an id that a Save
\* has stored completely, never the state in between.
C27_ResolutionIsAtomic ==
  \A a \in Goroutines :
    /\ a \in Writers(h) => (Writers(h) \cup Readers(h)) \ {a} = {}
    /\ a \in Readers(h) => \A u \in DOMAIN store : store[u] \in StoreIds
    /\ h[a].pc \in {"convert", "post", "typed", "return"} /\ h[a].conversationID = ""
         => IF h[a].ok THEN h[a].currentConversationID \in StoreIds
            ELSE h[a].currentConversationID = ""
    /\ h[a].pc = "assigned" => h[a].user \in DOMAIN store

\* A request reads the id of its user under the read lock while a request
\* of the same user waits to save another id.
C27_Witness ==
  \E a, b \in Goroutines :
    /\ h[a].pc = "reading" /\ h[b].pc = "store"
    /\ h[a].user = h[b].user
    /\ GetConversationID(store, h[a].user) = [id |-> "c1", ok |-> TRUE]
    /\ h[b].conversationID = "c2"

\* C28: when overlapping requests of one user supply different ids, the
\* store holds the id of whichever SaveConversationID ran last, and at every
\* moment the stored value of the user is an id that some request supplied,
\* never a mixture and never a lost entry: the value of a user changes only
\* when a SaveConversationID for that user completes, to the id of that call.
C28_LastSaveWins ==
  /\ [](Writers(h) = {} => \A u \in DOMAIN store : store[u] \in StoreIds)
  /\ [][/\ \A u \in DOMAIN store : u \in DOMAIN store'
        /\ \A g \in Goroutines :
             h[g].pc = "assigned" /\ h'[g].pc # "assigned"
               => store' = [k \in DOMAIN store |->
                              IF k = h[g].user THEN h[g].conversationID
                              ELSE store[k]]
        /\ (\A g \in Goroutines : h[g].pc = "assigned" => h'[g].pc = "assigned")
             => \A u \in DOMAIN store : store'[u] = store[u]]_vars

\* Two overlapping requests of one user have both saved their ids, and the
\* store holds the id of the request that arrived first.
C28_Witness ==
  \E a, b \in Goroutines :
    /\ h[a].user = h[b].user /\ h[a].n < h[b].n
    /\ h[a].conversationID = "c1" /\ h[b].conversationID = "c2"
    /\ h[a].pc = "convert" /\ h[b].pc \in {"convert", "post", "typed", "return"}
    /\ store[h[a].user] = "c1"

\* ======================================================= the handler's door
\* The request in the frame of w was refused by HandleWebhook before the
\* user and conversation id management: the handler holds no result of
\* ConvertAndSend and is about to return.
Refused(w) == h[w].pc = "return" /\ h[w].ret = ""

\* The request in the frame of w has left no trace: the store is the one it
\* arrived at, no client operation was called and nothing was sent.
NoTrace(w) ==
  /\ store = h[w].storeAt
  /\ h[w].ops = <<>> /\ h[w].tries = <<>> /\ h[w].sends = <<>>
  /\ h[w].resp = NoOutcome /\ h[w].conv = ""

\* C31, as stated: with authentication enabled, every request whose
\* Authorization header is missing or is not "Bearer " + the token is
\* answered 401.
C31_UnauthorizedIsAnswered401 ==
  \A w \in Workers :
    cfg.EnableAuth /\ h[w].n > 0 /\ h[w].authHeader # ExpectedToken
      => h[w].status = 401

\* C31, as the code has it: with authentication enabled, a request whose
\* Authorization header is missing or is not "Bearer " + the token is
\* refused, with 401 when it is a POST and with 405 otherwise (the method is
\* checked first), and it never reaches the store or the pipeline: no store
\* write, no backend call, no outbound send.
C31_UnauthorizedIsRefused ==
  \A w \in Workers :
    cfg.EnableAuth /\ h[w].n > 0 /\ h[w].authHeader # ExpectedToken
      => /\ Refused(w)
         /\ h[w].status = (IF h[w].method = "POST" THEN 401 ELSE 405)
         /\ NoTrace(w)

\* A POST with a wrong token has been answered 401 by a handler whose store
\* holds an id saved by an earlier request.
C31_Witness ==
  \E w \in Workers :
    /\ cfg.EnableAuth /\ h[w].method = "POST"
    /\ h[w].authHeader = "Bearer other"
    /\ h[w].status = 401 /\ Refused(w)
    /\ store # EmptyStore

\* C32: the user passed to ConvertAndSend is never empty: every request that
\* gets past the parsing of its body, a request without a user field
\* included, has a non-empty user from there on.
C32_UserIsNeverEmpty ==
  \A w \in Workers :
    h[w].n > 0 /\ ~Refused(w) => h[w].user # ""

\* ConvertAndSend runs for a request that had no user field: its user is
\* the uuid drawn for it.
C32_Witness ==
  \E w \in Workers :
    /\ h[w].pc = "convert"
    /\ h[w].user = UuidTable[h[w].n]

\* C38: a request refused before the pipeline (a method other than POST, a
\* failed authentication, a body that does not parse, an unsupported content
\* type) leaves the store as it was, calls no backend operation and sends
\* nothing; a request with a method other than POST is always refused so.
C38_RefusedRequestLeavesNoTrace ==
  \A w \in Workers :
    h[w].n > 0 =>
      /\ h[w].method # "POST" => Refused(w) /\ h[w].status = 405
      /\ h[w].status \in {400, 401, 405, 415} => Refused(w) /\ NoTrace(w)

\* A request with an unsupported content type, or with a body that does not
\* parse, has been refused by a handler whose store holds an id saved by an
\* earlier request.
C38_Witness ==
  \E w \in Workers :
    /\ Refused(w) /\ h[w].status \in {400, 415}
    /\ h[w].n = MaxRequests
    /\ store # EmptyStore

\* ======================================================== the configuration
\* main loads the configuration once, before anything else, and exits when
\* LoadConfig returns an error.  This part follows the process from its
\* start to the point where it serves or exits: h is the process with the
\* environment and the configuration file it was started with, cfg the
\* configuration LoadConfig has returned.

\* What os.Stat, os.ReadFile and yaml.Unmarshal make of the file
\* internal/config/config.yaml: it does not exist, os.Stat fails otherwise,
\* it cannot be read, it is no YAML of the configuration, or it loads.
ConfigFiles == {"absent", "denied", "unreadable", "unparsable", "good"}

\* A value of the file that refers to the environment.
Placeholder == "${DIFY_API_KEY}"

\* The settings Validate looks at, as the environment gives them.
Environments ==
  [APIKey : {"", "app-key"}, BaseURL : {"", "https://api.dify.ai"},
   WebhookURL : {"", "https://qyapi.weixin.qq.com/hook"},
   AuthToken : {"", "secret"}, EnableAuth : BOOLEAN]

\* The same settings as the file gives them; a setting the file leaves out
\* is the zero value.
YamlFiles ==
  [APIKey : {"", "yaml-key", Placeholder}, BaseURL : {"", "https://dify.local"},
   WebhookURL : {"", "https://qyapi.weixin.qq.com/yaml"},
   AuthToken : {"", "yaml-secret"}, EnableAuth : BOOLEAN]

NoConfig ==
  [APIKey |-> "", BaseURL |-> "", WebhookURL |-> "", AuthToken |-> "",
   EnableAuth |-> FALSE]

\* os.ExpandEnv on the content of the file.
ExpandEnv(y, env) ==
  [y EXCEPT !.APIKey = IF @ = Placeholder THEN env.APIKey ELSE @]

\* AppConfig.Validate: the error it returns, "" for nil.
Validate(c) ==
  IF c.APIKey = "" THEN "validate"
  ELSE IF c.BaseURL = "" THEN "validate"
  ELSE IF c.WebhookURL = "" THEN "validate"
  ELSE IF c.EnableAuth /\ c.AuthToken = "" THEN "validate"
  ELSE ""

\* LoadConfig: the configuration and the error it returns for the file, the
\* content the file has when it loads, and the environment.
LoadConfig(file, yaml, env) ==
  LET validated(c) == IF Validate(c) = "" THEN [cfg |-> c, err |-> ""]
                      ELSE [cfg |-> NoConfig, err |-> Validate(c)]
  IN  CASE file = "good" -> validated(ExpandEnv(yaml, env))
        [] file = "unreadable" -> [cfg |-> NoConfig, err |-> "read"]
        [] file = "unparsable" -> [cfg |-> NoConfig, err |-> "parse"]
        [] file = "absent" -> validated(env)
        [] file = "denied" -> [cfg |-> NoConfig, err |-> "stat"]

InitStartup ==
  /\ cfg = NoConfig
  /\ store = EmptyStore
  /\ disk = {}
  /\ dify = <<>>
  /\ nreq = 0
  /\ h \in [pc : {"main"}, file : ConfigFiles, yaml : YamlFiles,
            env : Environments, err : {""}]

\* main calls LoadConfig.
Load ==
  /\ h.pc = "main"
  /\ LET r == LoadConfig(h.file, h.yaml, h.env)
     IN  /\ cfg' = r.cfg
         /\ h' = [h EXCEPT !.pc = "loaded", !.err = r.err]
  /\ UNCHANGED <<store, disk, dify, nreq>>

\* main exits on an error of LoadConfig (log.Fatalf).
Exit ==
  /\ h.pc = "loaded" /\ h.err # ""
  /\ h' = [h EXCEPT !.pc = "exited"]
  /\ UNCHANGED <<cfg, store, disk, dify, nreq>>

\* main goes on to create the store and the handler and to listen.
Serve ==
  /\ h.pc = "loaded" /\ h.err = ""
  /\ h' = [h EXCEPT !.pc = "serving"]
  /\ UNCHANGED <<cfg, store, disk, dify, nreq>>

NextStartup ==
  \/ Load
  \/ Exit
  \/ Serve

SpecStartup == InitStartup /\ [][NextStartup]_vars

\* C33: LoadConfig falls back to the environment both when the file does
\* not exist and when it exists but cannot be read or parsed: in each of
\* these cases it returns the validated configuration of the environment
\* and not the error of the load.
C33_LoadFailureFallsBackToTheEnvironment ==
  h.pc # "main" /\ h.file \in {"absent", "unreadable", "unparsable"}
    => /\ h.err = Validate(h.env)
       /\ h.err = "" => cfg = h.env

\* ================================================= the client on its own
\* The operations of DifyService take a request that the caller has built;
\* ConvertAndSend builds it with empty inputs and the blocking mode, another
\* caller may not.  This part follows one call of an operation with any
\* request, and the body of its HTTP request through the attempts of
\* doDifyRequest: h is the call, cfg the credentials of the service.

ClientOperations == {"chat", "completion", "workflow", "upload"}

\* The "role" entry of the caller's inputs: none, the empty string, a role.
CallerRoles == {<<>>, <<"">>, <<"manager">>}

\* The response mode the caller has set.
CallerModes == {"", "streaming", responseModeBlocking}

\* What the reader handed to http.NewRequest still holds: the whole body,
\* or what an earlier attempt has left of it (a part, or nothing).
WholeBody == "whole"
RestOfBody == "rest"

\* The reader after a round trip that began with body: the request carries
\* the one *bytes.Buffer made before the loop, so what an attempt has
\* written is gone; a transport failure comes before or after the write.
BodyLeft(body, out) ==
  IF out.kind = "transport" THEN {body, RestOfBody} ELSE {RestOfBody}

\* httpClient.Do with the reader as it is: with less than Content-Length
\* bytes to send the transport fails the round trip.
RoundTrips(k, body) ==
  IF body = WholeBody THEN Outcomes(k)
  ELSE {out \in Outcomes(k) : out.kind = "transport"}

InitClient ==
  /\ cfg \in [BaseURL : {"", "https://api.dify.ai"}, APIKey : {"", "app-key"}]
  /\ store = EmptyStore
  /\ disk = {}
  /\ dify = <<>>
  /\ nreq = 0
  /\ h \in {c \in [pc : {"call"}, op : ClientOperations, role : CallerRoles,
                   mode : CallerModes, request : {NoRequest}, attempt : {0},
                   body : {""}, sent : {<<>>}, err : {""}] :
              c.op = "upload" => c.role = <<>> /\ c.mode = ""}

\* The client operation up to doDifyRequest: the credentials check, the
\* default role, the response mode and the body of the request.
Prepare ==
  /\ h.pc = "call"
  /\ IF CredentialsMissing(cfg)
     THEN h' = [h EXCEPT !.pc = "returned", !.err = "config"]
     ELSE h' = [h EXCEPT !.pc = "do", !.body = WholeBody,
                         !.request =
                           With(NoRequest,
                                [path |-> IF h.op = "upload"
                                          THEN difyFileUploadPath
                                          ELSE EndpointOf(h.op),
                                 role |-> RoleOf(h.op, h.role),
                                 response_mode |->
                                   IF h.op = "upload" THEN ""
                                   ELSE ResponseModeOf(h.op, h.mode)])]
  /\ UNCHANGED <<cfg, store, disk, dify, nreq>>

\* One attempt of doDifyRequest: sent keeps what each attempt had to send.
\* After the last attempt the operation returns its error, "" for nil.
Do ==
  /\ h.pc = "do"
  /\ \E out \in RoundTrips(h.op, h.body) :
       \E left \in BodyLeft(h.body, out) :
         LET e == doDifyRequest(out)
             tried == [h EXCEPT !.sent = Append(@, h.body), !.body = left]
         IN  IF LoopContinues(h.attempt, out)
             THEN h' = [tried EXCEPT !.attempt = @ + 1]
             ELSE h' = [tried EXCEPT
                          !.pc = "returned",
                          !.err = IF e # "" THEN e
                                  ELSE IF h.op # "upload"
                                          /\ PayloadMissing(out.field)
                                  THEN "missing" ELSE ""]
  /\ UNCHANGED <<cfg, store, disk, dify, nreq>>

NextClient ==
  \/ Prepare
  \/ Do

SpecClient == InitClient /\ [][NextClient]_vars

\* C34: the chat and the completion call add the default role to the inputs
\* only when the inputs have no "role" key, so that a role the caller has
\* supplied is sent as it is, and both send the blocking response mode
\* whatever the caller has set; the workflow call adds no role.
C34_DefaultRoleOnlyWhenAbsent ==
  h.pc = "do" =>
    /\ h.op \in {"chat", "completion"} =>
         /\ h.request.role = (IF h.role = <<>> THEN <<defaultRole>> ELSE h.role)
         /\ h.request.response_mode = responseModeBlocking
    /\ h.op = "workflow" => h.request.role = h.role

\* A chat call whose caller has supplied a role and the streaming mode is
\* on its way with that role and the blocking mode.
C34_Witness ==
  /\ h.pc = "do" /\ h.op = "chat"
  /\ h.role = <<"manager">> /\ h.mode = "streaming"
  /\ h.request.role = <<"manager">>
  /\ h.request.response_mode = responseModeBlocking

\* C40: every attempt of doDifyRequest, the second and the third after a
\* transport failure included, has the whole body of the request to send.
C40_EveryAttemptSendsTheWholeBody ==
  \A i \in 1..Len(h.sent) : h.sent[i] = WholeBody

\* ================================================ the result of the pipeline
\* The errors of the backend stage of ConvertAndSend: those of the upload
\* and of the call (missing credentials, a file that does not open, no
\* round trip after the retries, an unreadable body, an error status, a body
\* that does not decode, a missing field) and the unsupported bot type.
BackendErrors ==
  {"config", "open", "transport", "read", "status", "decode", "missing",
   "unsupported"}

\* C35: when the backend stage fails, ConvertAndSend returns an error,
\* nothing has been sent, and the handler answers 500; the handler answers
\* 200 only when ConvertAndSend returned no error.
C35_BackendFailureIsAnswered500 ==
  \A w \in Workers :
    RunEnded(w) =>
      /\ h[w].err \in BackendErrors =>
           /\ h[w].ret = "error"
           /\ h[w].sends = <<>>
           /\ h[w].status = 500
      /\ h[w].status = 200 => h[w].ret = "ok" /\ h[w].err = ""
      /\ h[w].ret = "error" => h[w].status = 500

\* A run has ended in each kind of backend failure: here the upload was
\* answered with an error status, nothing was sent and the answer is 500.
C35_Witness ==
  \E w \in Workers :
    /\ RunEnded(w) /\ h[w].err = "status" /\ h[w].ops = <<"upload">>
    /\ h[w].sends = <<>> /\ h[w].status = 500

\* ================================================================ termination
\* The steps of the handler goroutine w once its request is in: everything
\* but the arrival of a request.
Step(w) ==
  \/ Resolve(w)
  \/ ConvertStart(w)
  \/ PreSend(w)
  \/ UploadFile(w)
  \/ CallAPI(w)
  \/ HttpAttempt(w)
  \/ PostStart(w)
  \/ Download(w)
  \/ SendTyped(w)
  \/ SendFallback(w)
  \/ SendMarkdown(w)
  \/ SendText(w)
  \/ Return(w)

\* The goroutine scheduler runs every goroutine that can take a step, and
\* every call that leaves the process answers or times out (the clients of
\* Dify and of WeCom carry a timeout, the pause between two attempts is
\* finite): a handler that can take a step does so.
FairSpec == Spec /\ \A w \in Workers : WF_vars(Step(w))

\* The request of w has not been answered yet.
Running(w) == h[w].pc # "idle"

\* An upper bound on the steps a frame has left: the statements of
\* HandleWebhook, ConvertAndSend and postprocessDifyResponse follow each
\* other without a loop, and the one loop, in doDifyRequest, counts its
\* attempts up to maxRetries.
StepsLeft(f) ==
  CASE f.pc = "idle" -> 0
    [] f.pc = "return" -> 1
    [] f.pc \in {"presend", "fallback", "sendmd", "sendtext"} -> 2
    [] f.pc = "typed" -> 3
    [] f.pc = "download" -> 4
    [] f.pc = "post" -> 5
    [] f.pc = "http" /\ f.kind # "upload" -> 5 + (maxRetries - f.attempt)
    [] f.pc = "api" -> 6 + maxRetries
    [] f.pc = "http" /\ f.kind = "upload" -> 6 + maxRetries + (maxRetries - f.attempt)
    [] f.pc = "upload" -> 7 + 2 * maxRetries
    [] f.pc = "convert" -> 8 + 2 * maxRetries
    [] f.pc = "resolve" -> 9 + 2 * maxRetries

C37_StoreOperationsAreKeyIndependent ==
  /\ [][\A u \in OverlappingUsers :
          GetConversationID(store', u) # GetConversationID(store, u)
            => \E g \in Goroutines :
                 h[g].user = u /\ h[g].pc \in {"saving", "assigned"}]_vars
  /\ [][(\E g \in Goroutines : h[g].pc = "reading" /\ h'[g].pc # "reading")
          => store' = store]_vars
  /\ [](\A u \in OverlappingUsers :
          \A v \in OverlappingUsers \ {u}, i \in StoreIds :
          LET before == GetConversationID(store, u)
          IN  /\ GetConversationID(SaveConversationID(store, v, i), u) = before
              /\ GetConversationID(NewConversationID(store, v, UuidTable[1]), u)
                   = before
              /\ GetConversationID(DeleteConversationID(store, v), u) = before)

\* One goroutine has saved an id for its user while the store held another
\* id for the other user, which is still there.
C37_Witness ==
  \E g \in Goroutines :
    /\ h[g].pc = "convert" /\ h[g].user = "u1"
    /\ h[g].conversationID = "c1"
    /\ GetConversationID(store, "u1") = [id |-> "c1", ok |-> TRUE]
    /\ GetConversationID(store, "u2") = [id |-> "c2", ok |-> TRUE]
    /\ \E b \in Goroutines \ {g} : h[b].user = "u2" /\ h[b].pc = "convert"

\* ================================================ the save and the pipeline
\* C39: the id a request supplies is written to the store before the
\* pipeline runs, and the write is not undone when the pipeline fails.  The
\* step that resolves the id of a request with an id X leaves the store
\* mapping the user to X and hands over to ConvertAndSend; from there to
\* the end of the handler, through the pre-filter, an error of any stage or
\* the return itself, no step changes the store.
C39_SaveComesFirstAndStays ==
  /\ [][\A w \in Workers :
          h[w].pc = "resolve" /\ h[w].conversationID # ""
            => /\ h'[w].pc = "convert"
               /\ GetConversationID(store', h[w].user)
                    = [id |-> h[w].conversationID, ok |-> TRUE]]_vars
  /\ [][\A w \in Workers :
          h[w].pc \notin {"idle", "resolve"} => store' = store]_vars

\* The first request of a behaviour supplied the id c1, its run has ended
\* in an error of the backend stage, and the store maps its user to c1.
C39_Witness ==
  \E w \in Workers :
    /\ RunEnded(w) /\ h[w].n = 1
    /\ h[w].ret = "error" /\ h[w].err \in BackendErrors
    /\ GetConversationID(store, h[w].user) = [id |-> "c1", ok |-> TRUE]

====
